---- MODULE Spec2Model ----
(***************************************************************************)
(* A model of the script-synchronisation programs of the repository:       *)
(*   pull   : the pull script of src/unnamed/part_000 (lines 222-471)      *)
(*   pullV1 : the earlier pull script, src/pull.js                         *)
(*   push   : the push script, src/scripts/Push.js                         *)
(* and of the helpers of src/helpers/Git.js they import.                   *)
(*                                                                         *)
(* Strings are written as sequences of tokens: a script name is            *)
(* <<"Foo">>, the file "Foo.js" is <<"Foo", ".js">>, a version "1.0.2" is   *)
(* the sequence of its dot-separated components <<1, 0, 2>>, a script's    *)
(* text is the sequence of its UTF-16 code units, and a hash is the        *)
(* sequence of the characters computeHash returns.  A JavaScript object is *)
(* a function whose DOMAIN is the set of its own keys.                     *)
(***************************************************************************)
EXTENDS Integers, Sequences, FiniteSets, TLC

VARIABLES
  localFiles,      \* the Scriptable directory: path -> [content, mtime]
  metaDisk,        \* config/scripts-meta.json on disk: [state, doc]
  remoteDoc,       \* the metadata document stored in the repository
  remoteFiles,     \* the repository's script files: path -> content
  script,          \* which program runs: "pull", "pullV1", "push"
  pc,              \* the program's position
  now,             \* the clock (new Date())
  localMeta,       \* const localMeta (in memory)
  remoteMeta,      \* let remoteMeta (in memory)
  lists,           \* pull: newScripts, updates, conflicts, skipped
  selected,        \* the selection Set, in insertion order
  selectedScripts, \* pull: selectedScripts; push: selectedFiles
  idx,             \* position of the for-of loop over selectedScripts
  files,           \* push: const files
  cur,             \* push: the loop body's type / newVersion of the current file
  toggles,         \* number of toggles made in the selection menu
  log              \* what the run did: writes, requests, outcomes

vars == <<localFiles, metaDisk, remoteDoc, remoteFiles, script, pc, now,
          localMeta, remoteMeta, lists, selected, selectedScripts, idx,
          files, cur, toggles, log>>

---------------------------------------------------------------------------
(* Bounds of the model *)

\* versions of the initial metadata are 1.0.0 .. 1.0.MaxPatch
MaxPatch == 1

\* the operator toggles at most MaxToggles entries in a selection menu
MaxToggles == 2

\* script names; the second one holds a character encodeURIComponent escapes
Stems == {<<"Foo">>, <<"My", " ", "List">>}

FocusStem == <<"Foo">>

OtherStem == <<"My", " ", "List">>

\* the order in which the keys of a JSON document are enumerated
KeyOrder == <<<<"Foo">>, <<"Foo", ".js">>, <<"My", " ", "List">>,
              <<"My", " ", "List", ".js">>>>

\* script texts, as UTF-16 code units ("a", "b")
Contents == {<<97>>, <<98>>}

Types == {"widget", "helper", "script"}

InitVersions == {<<1, 0, p>> : p \in 0..MaxPatch}

---------------------------------------------------------------------------
(* JavaScript values *)

\* null / undefined where a hash string is expected
Null == <<"null">>

EmptyObject == [k \in {} |-> 0]

\* obj[key] || dflt
OrDefault(obj, key, dflt) == IF key \in DOMAIN obj THEN obj[key] ELSE dflt

\* { ...a, ...b }
Spread(a, b) ==
  [k \in DOMAIN a \cup DOMAIN b |-> IF k \in DOMAIN b THEN b[k] ELSE a[k]]

\* obj[key] = value
SetKey(obj, key, value) ==
  [k \in DOMAIN obj \cup {key} |-> IF k = key THEN value ELSE obj[k]]

\* Object.keys(obj), in document order
RECURSIVE KeysFrom(_, _)
KeysFrom(obj, i) ==
  IF i > Len(KeyOrder) THEN <<>>
  ELSE (IF KeyOrder[i] \in DOMAIN obj THEN <<KeyOrder[i]>> ELSE <<>>)
       \o KeysFrom(obj, i + 1)

Keys(obj) == KeysFrom(obj, 1)

Range(s) == {s[i] : i \in 1..Len(s)}

\* name + ".js"
JsFile(name) == name \o <<".js">>

\* f.endsWith(".js")
EndsWithJs(f) == Len(f) > 0 /\ f[Len(f)] = ".js"

\* f.replace(/\.js$/, "")
StripJs(f) == IF EndsWithJs(f) THEN SubSeq(f, 1, Len(f) - 1) ELSE f

\* encodeURIComponent: letters are kept, a space becomes %20
encodeURIComponent(s) == [i \in 1..Len(s) |-> IF s[i] = " " THEN "%20" ELSE s[i]]

\* the repository path a request URL addresses (the server decodes it)
UrlPath(s) == [i \in 1..Len(s) |-> IF s[i] = "%20" THEN " " ELSE s[i]]

---------------------------------------------------------------------------
(* src/helpers/Git.js *)

HexDigits == <<"0", "1", "2", "3", "4", "5", "6", "7", "8", "9",
               "a", "b", "c", "d", "e", "f">>

RECURSIVE toHex(_)
toHex(n) == IF n < 16 THEN <<HexDigits[n + 1]>>
            ELSE toHex(n \div 16) \o <<HexDigits[(n % 16) + 1]>>

\* Number.prototype.toString(16) of a 32-bit integer
toString16(n) == IF n < 0 THEN <<"-">> \o toHex(0 - n) ELSE toHex(n)

\* h | 0 : wrap to signed 32 bits (the operand given as 65536 * hi + lo)
ToInt32(hi, lo) ==
  LET h == hi % 65536
  IN  IF h >= 32768 THEN ((h - 65536) * 65536) + lo ELSE (h * 65536) + lo

\* mutant of HashStep: the shift is added to, not subtracted from (h * 33)
HashStepAdds(hash, chr) ==
  LET u    == hash % 65536
      v    == (hash - u) \div 65536
      sl   == (u * 32) % 65536
      sh   == (v * 32) + ((u * 32) \div 65536)
      lo   == (sl + u) + chr
      hi   == (sh + v) + ((lo - (lo % 65536)) \div 65536)
  IN  ToInt32(hi, lo % 65536)

\* one round of the loop: hash = ((hash << 5) - hash) + chr; hash |= 0
HashStep(hash, chr) ==
  LET u    == hash % 65536                \* low half of hash
      v    == (hash - u) \div 65536       \* high half (signed)
      sl   == (u * 32) % 65536            \* hash << 5, low half
      sh   == (v * 32) + ((u * 32) \div 65536)
      lo   == (sl - u) + chr
      hi   == (sh - v) + ((lo - (lo % 65536)) \div 65536)
  IN  ToInt32(hi, lo % 65536)

RECURSIVE HashFrom(_, _, _)
HashFrom(str, i, hash) ==
  IF i > Len(str) THEN hash ELSE HashFrom(str, i + 1, HashStep(hash, str[i]))

computeHash(str) == toString16(HashFrom(str, 1, 0))

\* mutant of loadFmJSON: what the file holds is returned as it is
loadFmJSONKeepsContent(file) == file.doc

\* loadFmJSON(fm, path): {} when the file is absent or is not JSON
loadFmJSON(file) ==
  IF file.state = "absent" THEN EmptyObject
  ELSE IF file.state = "malformed" THEN EmptyObject
  ELSE file.doc

---------------------------------------------------------------------------
(* compareVersions, src/unnamed/part_000 and src/pull.js *)

NaN == 0 - 1

\* pa[i] of a.split(".").map(Number); undefined compares like NaN
Comp(p, i) == IF i <= Len(p) THEN p[i] ELSE NaN

JsGt(x, y) == x # NaN /\ y # NaN /\ x > y

RECURSIVE CompareFrom(_, _, _)
CompareFrom(pa, pb, i) ==
  IF i > 3 THEN 0
  ELSE IF JsGt(Comp(pa, i), Comp(pb, i)) THEN 1
  ELSE IF JsGt(Comp(pb, i), Comp(pa, i)) THEN 0 - 1
  ELSE CompareFrom(pa, pb, i + 1)

\* mutant of compareVersions: the loop stops after the second component
compareVersionsMajorMinor(a, b) ==
  CompareFrom(<<Comp(a, 1), Comp(a, 2), 0>>, <<Comp(b, 1), Comp(b, 2), 0>>, 1)

compareVersions(a, b) == CompareFrom(a, b, 1)

---------------------------------------------------------------------------
(* Version strings as text: a sequence of characters, "1.10.2" being        *)
(* <<"1", ".", "1", "0", ".", "2">>.  The metadata records of the model    *)
(* hold a version as the components split(".").map(Number) yields.         *)

Digits == <<"0", "1", "2", "3", "4", "5", "6", "7", "8", "9">>

IsDigit(c) == \E d \in 1..10 : Digits[d] = c

DigitValue(c) == (CHOOSE d \in 1..10 : Digits[d] = c) - 1

\* version.split("."): the parts between the dots, i the part's first index
RECURSIVE SplitFrom(_, _, _)
SplitFrom(str, i, j) ==
  IF j > Len(str) THEN <<SubSeq(str, i, Len(str))>>
  ELSE IF str[j] = "." THEN <<SubSeq(str, i, j - 1)>> \o SplitFrom(str, j + 1, j + 1)
  ELSE SplitFrom(str, i, j + 1)

split(str) == SplitFrom(str, 1, 1)

RECURSIVE DecimalValue(_, _)
DecimalValue(part, n) ==
  IF n = 0 THEN 0 ELSE (10 * DecimalValue(part, n - 1)) + DigitValue(part[n])

\* mutant of Number: a part counts as its first character, as when the parts
\* are compared as strings
NumberOfFirstCharacter(part) ==
  IF Len(part) = 0 THEN 0
  ELSE IF IsDigit(part[1]) THEN DigitValue(part[1])
  ELSE NaN

\* Number(part): "" is 0, a run of digits its value, anything else NaN
Number(part) ==
  IF Len(part) = 0 THEN 0
  ELSE IF \A n \in 1..Len(part) : IsDigit(part[n]) THEN DecimalValue(part, Len(part))
  ELSE NaN

\* version.split(".").map(Number)
SplitNumbers(version) == [i \in 1..Len(split(version)) |-> Number(split(version)[i])]

\* String(n) of a component
RECURSIVE DecimalDigits(_)
DecimalDigits(n) ==
  IF n < 10 THEN <<Digits[n + 1]>>
  ELSE DecimalDigits(n \div 10) \o <<Digits[(n % 10) + 1]>>

NumberToString(n) == IF n = NaN THEN <<"N", "a", "N">> ELSE DecimalDigits(n)

\* parts.join(".")
RECURSIVE join(_)
join(parts) ==
  IF Len(parts) = 0 THEN <<>>
  ELSE IF Len(parts) = 1 THEN NumberToString(parts[1])
  ELSE NumberToString(parts[1]) \o <<".">> \o join(Tail(parts))

---------------------------------------------------------------------------
(* The state a run starts from *)

Hashes == {computeHash(c) : c \in Contents}

\* records the local metadata may hold for a script: pull writes
\* {version, type, lastUpdated}, push's refresh adds or creates {hash, lastUpdated}
LocalRecs ==
  {Spread(Spread([lastUpdated |-> 0], v), h) :
     v \in {EmptyObject} \cup {[version |-> x, type |-> "widget"] : x \in InitVersions},
     h \in {EmptyObject} \cup {[hash |-> x] : x \in Hashes}}

InitTypes == {"widget", "helper"}

RemoteRecs ==
  {Spread([version |-> v, type |-> t, lastUpdated |-> 1], h) :
     v \in InitVersions, t \in InitTypes,
     h \in {EmptyObject} \cup {[hash |-> x] : x \in Hashes}}

\* modification times of a local file: before / after the remote lastUpdated (1)
MTimes == {0, 2}

\* a script's situation: its local file, its local record, its remote record
\* and the text stored in the repository (each <<>> when absent)
Situation(file, lrec, rrec, rtext) ==
  [file |-> file, lrec |-> lrec, rrec |-> rrec, rtext |-> rtext]

\* every situation of the first script, as pull reads it
FocusSituations(mtimes) ==
  {Situation(f, l, r[1], r[2]) :
     f \in {<<>>} \cup {<<[content |-> c, mtime |-> m]>> : c \in Contents, m \in mtimes},
     l \in {<<>>} \cup {<<x>> : x \in LocalRecs},
     r \in {<<<<>>, <<>>>>} \cup {<<<<x>>, <<c>>>> : x \in RemoteRecs, c \in Contents}}

\* the second script is in one of these situations: local only, new,
\* clean update, same version with other content, identical content
OtherSituations ==
  LET a  == <<97>>
      b  == <<98>>
      f  == <<[content |-> a, mtime |-> 0]>>
      l  == <<[version |-> <<1, 0, 0>>, type |-> "helper", lastUpdated |-> 0,
               hash |-> computeHash(a)]>>
      r(v, c) == <<[version |-> v, type |-> "helper", lastUpdated |-> 1,
                    hash |-> computeHash(c)]>>
  IN  { Situation(f, l, <<>>, <<>>),
        Situation(<<>>, <<>>, r(<<1, 0, 0>>, b), <<b>>),
        Situation(f, l, r(<<1, 0, 1>>, b), <<b>>),
        Situation(f, l, r(<<1, 0, 0>>, b), <<b>>),
        Situation(f, l, r(<<1, 0, 1>>, a), <<a>>) }

\* the path under which push stores a script: `${type}s/${fileName}`
RepoPath(type, fileName) == <<type, "s/">> \o fileName

\* the stores that hold the situations sit (a function on Stems)
FilesOf(sit) ==
  [p \in {JsFile(n) : n \in {m \in Stems : sit[m].file # <<>>}} |->
     sit[StripJs(p)].file[1]]

MetaOf(sit) ==
  [n \in {m \in Stems : sit[m].lrec # <<>>} |-> sit[n].lrec[1]]

RemoteDocOf(sit) ==
  [n \in {m \in Stems : sit[m].rrec # <<>>} |-> sit[n].rrec[1]]

RemoteFilesOf(sit) ==
  [p \in {RepoPath(sit[n].rrec[1].type, JsFile(n)) :
            n \in {m \in Stems : sit[m].rtext # <<>>}} |->
     sit[StripJs(SubSeq(p, 3, Len(p)))].rtext[1]]

EmptyLists == [newScripts |-> <<>>, updates |-> <<>>, conflicts |-> <<>>,
               skipped |-> <<>>]

\* nothing done yet; meta0 and files0 remember the stores the run started from;
\* run counts the runs, history lists the pushes the runs before have completed;
\* prevApplied, prevOffered and prevRemote are what the run before on this
\* device applied, had in newScripts and updates, and reconciled against;
\* published tells that the repository was changed from elsewhere
EmptyLog(meta, fs, rdoc) ==
  [meta0 |-> meta, files0 |-> fs, rdoc0 |-> rdoc, written |-> {}, metaWrites |-> 0,
   puts |-> {}, uploaded |-> {}, applied |-> {}, failed |-> {},
   error |-> "", summary |-> <<>>, asked |-> {}, sent |-> <<>>,
   run |-> 1, replica |-> FALSE, history |-> <<>>,
   prevApplied |-> {}, prevOffered |-> {}, prevRemote |-> EmptyObject,
   published |-> FALSE]

InitRun(s, fs, meta, rdoc, rfiles) ==
  /\ script = s
  /\ localFiles = fs
  /\ metaDisk = meta
  /\ remoteDoc = rdoc
  /\ remoteFiles = rfiles
  /\ pc = "start"
  /\ now = 3
  /\ localMeta = EmptyObject
  /\ remoteMeta = EmptyObject
  /\ lists = EmptyLists
  /\ selected = <<>>
  /\ selectedScripts = <<>>
  /\ idx = 0
  /\ files = <<>>
  /\ cur = EmptyObject
  /\ toggles = 0
  /\ log = EmptyLog(meta, fs, rdoc)

InitOf(s, sit) ==
  InitRun(s, FilesOf(sit), [state |-> "ok", doc |-> MetaOf(sit)],
          RemoteDocOf(sit), RemoteFilesOf(sit))

InitPull ==
  \E a \in FocusSituations({0}), b \in OtherSituations :
    InitOf("pull", [n \in Stems |-> IF n = FocusStem THEN a ELSE b])

InitPullV1 ==
  \E a \in FocusSituations(MTimes), b \in OtherSituations :
    InitOf("pullV1", [n \in Stems |-> IF n = FocusStem THEN a ELSE b])

---------------------------------------------------------------------------
(* Loading the metadata: part_000 303-314, pull.js 96-111, Push.js 70-80 *)

LoadLocalMetadata ==
  /\ pc = "start"
  /\ localMeta' = loadFmJSON(metaDisk)
  /\ pc' = "fetchMeta"
  /\ UNCHANGED <<localFiles, metaDisk, remoteDoc, remoteFiles, script, now,
                 remoteMeta, lists, selected, selectedScripts, idx, files,
                 cur, toggles, log>>

\* what makes fetchGitHubJSON throw
FetchErrors == {"network", "no content", "JSON.parse"}

FetchRemoteMetaOk ==
  /\ pc = "fetchMeta"
  /\ remoteMeta' = remoteDoc
  /\ pc' = IF script = "push" THEN "listFiles" ELSE "compare"
  /\ UNCHANGED <<localFiles, metaDisk, remoteDoc, remoteFiles, script, now,
                 localMeta, lists, selected, selectedScripts, idx, files,
                 cur, toggles, log>>

\* mutant of AfterFetchError: the script goes on without remote metadata
AfterFetchErrorGoesOn == IF script = "push" THEN "listFiles" ELSE "compare"

\* part_000 313, pull.js 110, Push.js 79: return
AfterFetchError == "exit"

\* catch (e) { errorAlert(...); return; }
FetchRemoteMetaFail ==
  /\ pc = "fetchMeta"
  /\ \E e \in FetchErrors : log' = [log EXCEPT !.error = e]
  /\ pc' = AfterFetchError
  /\ UNCHANGED <<localFiles, metaDisk, remoteDoc, remoteFiles, script, now,
                 localMeta, remoteMeta, lists, selected, selectedScripts, idx,
                 files, cur, toggles>>

---------------------------------------------------------------------------
(* pull: the compare loop *)

Entry(name, remoteData, reason) ==
  [name |-> name, data |-> remoteData, reason |-> reason]

Push1(L, list, e) == [L EXCEPT ![list] = Append(@, e)]

\* part_000 323-333: what one round of the loop reads
localDataOf(name) == OrDefault(localMeta, name, EmptyObject)

existsLocally(name) == JsFile(name) \in DOMAIN localFiles

localSavedHash(name) == OrDefault(localDataOf(name), "hash", Null)

localGeneratedHash(name) ==
  IF existsLocally(name) THEN computeHash(localFiles[JsFile(name)].content) ELSE Null

remoteHash(name) == OrDefault(remoteMeta[name], "hash", Null)

cmpOf(name) ==
  compareVersions(OrDefault(remoteMeta[name], "version", <<0, 0, 0>>),
                  OrDefault(localDataOf(name), "version", <<0, 0, 0>>))

\* mutant of RemoteNewerBranch: local edits are not looked at
RemoteNewerBranchNoEditCheck(name, L) ==
  Push1(L, "updates", Entry(name, remoteMeta[name], "remote newer version"))

\* part_000 341-347: cmp > 0
RemoteNewerBranch(name, L) ==
  IF localGeneratedHash(name) # localSavedHash(name)
  THEN Push1(L, "conflicts",
             Entry(name, remoteMeta[name], "remote newer version + local edits"))
  ELSE Push1(L, "updates", Entry(name, remoteMeta[name], "remote newer version"))

\* part_000 348-354: cmp === 0
SameVersionBranch(name, L) ==
  IF localGeneratedHash(name) # remoteHash(name)
  THEN Push1(L, "conflicts",
             Entry(name, remoteMeta[name], "same version but different content"))
  ELSE Push1(L, "skipped",
             [name |-> name, reason |-> "same version + identical content"])

\* mutant of LocalNewerBranch: a local version ahead is taken as up to date
LocalNewerBranchSkips(name, L) ==
  Push1(L, "skipped",
        [name |-> name, reason |-> "local newer version but identical content"])

\* part_000 355-361: cmp < 0
LocalNewerBranch(name, L) ==
  IF localGeneratedHash(name) # remoteHash(name)
  THEN Push1(L, "conflicts",
             Entry(name, remoteMeta[name], "local newer version + content differs"))
  ELSE Push1(L, "skipped",
             [name |-> name, reason |-> "local newer version but identical content"])

\* part_000 341-361: the branches on cmp
VersionBranches(name, L) ==
  IF cmpOf(name) > 0 THEN RemoteNewerBranch(name, L)
  ELSE IF cmpOf(name) = 0 THEN SameVersionBranch(name, L)
  ELSE IF cmpOf(name) < 0 THEN LocalNewerBranch(name, L)
  ELSE L

\* mutant of CompareBody: the versions are compared before the content
CompareBodyVersionFirst(name, L) ==
  IF ~existsLocally(name)
    THEN Push1(L, "newScripts", Entry(name, remoteMeta[name], "missing locally"))
  ELSE IF cmpOf(name) > 0 THEN RemoteNewerBranch(name, L)
  ELSE IF localGeneratedHash(name) = remoteHash(name)
    THEN Push1(L, "skipped", [name |-> name, reason |-> "identical content"])
  ELSE VersionBranches(name, L)

\* mutant of CompareBody: identical content is not recorded in any list
CompareBodyDropsIdentical(name, L) ==
  IF ~existsLocally(name)
    THEN Push1(L, "newScripts", Entry(name, remoteMeta[name], "missing locally"))
  ELSE IF localGeneratedHash(name) = remoteHash(name) THEN L
  ELSE VersionBranches(name, L)

\* mutant of CompareBody: a missing file with a local record is not new
CompareBodyRecordFirst(name, L) ==
  IF ~existsLocally(name) /\ name \notin DOMAIN localMeta
    THEN Push1(L, "newScripts", Entry(name, remoteMeta[name], "missing locally"))
  ELSE IF localGeneratedHash(name) = remoteHash(name)
    THEN Push1(L, "skipped", [name |-> name, reason |-> "identical content"])
  ELSE VersionBranches(name, L)

\* part_000 335-362: one round of the loop, L the four lists so far
CompareBody(name, L) ==
  IF ~existsLocally(name)
    THEN Push1(L, "newScripts", Entry(name, remoteMeta[name], "missing locally"))
  ELSE IF localGeneratedHash(name) = remoteHash(name)
    THEN Push1(L, "skipped", [name |-> name, reason |-> "identical content"])
  ELSE VersionBranches(name, L)

\* pull.js 119-141: localData.version of a record without one makes
\* compareVersions throw (undefined.split)
CompareV1Throws(name) ==
  /\ JsFile(name) \in DOMAIN localFiles
  /\ name \in DOMAIN localMeta
  /\ \/ "version" \notin DOMAIN localMeta[name]
     \/ "version" \notin DOMAIN remoteMeta[name]

\* pull.js 119-141
CompareBodyV1(name, L) ==
  LET remoteData    == remoteMeta[name]
      localPath     == JsFile(name)
  IN  IF ~existsLocally(name)
        THEN Push1(L, "newScripts", Entry(name, remoteData, ""))
      ELSE IF name \notin DOMAIN localMeta
        THEN Push1(L, "updates", Entry(name, remoteData, "missing metadata"))
      ELSE
        LET localData     == localMeta[name]
            cmp           == compareVersions(remoteData.version, localData.version)
            localModDate  == localFiles[localPath].mtime
            remoteUpdated == OrDefault(remoteData, "lastUpdated", NaN)
        IN  IF cmp > 0
              THEN Push1(L, "updates", Entry(name, remoteData, "newer version"))
            ELSE IF JsGt(localModDate, remoteUpdated) /\ cmp = 0
              THEN Push1(L, "conflicts", Entry(name, remoteData, "local newer"))
            ELSE L

\* for (const [name, remoteData] of Object.entries(remoteMeta))
RECURSIVE CompareLoop(_, _, _)
CompareLoop(names, i, L) ==
  IF i > Len(names) THEN L
  ELSE CompareLoop(names, i + 1,
                   IF script = "pull" THEN CompareBody(names[i], L)
                   ELSE CompareBodyV1(names[i], L))

CompareScripts ==
  /\ pc = "compare"
  /\ script = "pullV1" => \A n \in DOMAIN remoteMeta : ~CompareV1Throws(n)
  /\ lists' = CompareLoop(Keys(remoteMeta), 1, EmptyLists)
  /\ pc' = "menu"
  /\ UNCHANGED <<localFiles, metaDisk, remoteDoc, remoteFiles, script, now,
                 localMeta, remoteMeta, selected, selectedScripts, idx, files,
                 cur, toggles, log>>

\* pull.js: the TypeError of compareVersions ends the script
CompareScriptsThrows ==
  /\ pc = "compare"
  /\ script = "pullV1"
  /\ \E n \in DOMAIN remoteMeta : CompareV1Throws(n)
  /\ pc' = "crashed"
  /\ log' = [log EXCEPT !.error = "TypeError"]
  /\ UNCHANGED <<localFiles, metaDisk, remoteDoc, remoteFiles, script, now,
                 localMeta, remoteMeta, lists, selected, selectedScripts, idx,
                 files, cur, toggles>>

---------------------------------------------------------------------------
(* pull: the menus, part_000 367-442, pull.js 146-199 *)

\* mutant of AllOptions: the conflicts are offered with the rest
AllOptionsWithConflicts == lists.newScripts \o lists.updates \o lists.conflicts

\* [...newScripts, ...updates]
AllOptions == lists.newScripts \o lists.updates

\* part_000 379-385: Update All and Choose are offered only when there is
\* something to update; pull.js 157-159 always offers them
ActionsOffered == script = "pullV1" \/ Len(lists.newScripts) + Len(lists.updates) > 0

\* mutant of AfterSelection: an empty selection goes on to the download loop
AfterSelectionGoesOn(sel) == "download"

\* if (!selectedScripts.length) { ...; return; }
AfterSelection(sel) == IF Len(sel) = 0 THEN "exit" ELSE "download"

\* choice === -1
MenuCancel ==
  /\ pc = "menu"
  /\ pc' = "exit"
  /\ UNCHANGED <<localFiles, metaDisk, remoteDoc, remoteFiles, script, now,
                 localMeta, remoteMeta, lists, selected, selectedScripts, idx,
                 files, cur, toggles, log>>

\* choice === 0
MenuUpdateAll ==
  /\ pc = "menu"
  /\ ActionsOffered
  /\ selectedScripts' = AllOptions
  /\ idx' = 1
  /\ pc' = AfterSelection(AllOptions)
  /\ UNCHANGED <<localFiles, metaDisk, remoteDoc, remoteFiles, script, now,
                 localMeta, remoteMeta, lists, selected, files, cur, toggles, log>>

\* choice === 1
MenuChoose ==
  /\ pc = "menu"
  /\ ActionsOffered
  /\ selected' = <<>>
  /\ pc' = IF script = "pull" /\ Len(AllOptions) = 0 THEN "exit" ELSE "pick"
  /\ UNCHANGED <<localFiles, metaDisk, remoteDoc, remoteFiles, script, now,
                 localMeta, remoteMeta, lists, selectedScripts, idx, files,
                 cur, toggles, log>>

\* selected.has(x) ? selected.delete(x) : selected.add(x)
Toggle(set, x) ==
  IF x \in Range(set) THEN SelectSeq(set, LAMBDA y : y # x) ELSE Append(set, x)

PickToggle ==
  /\ pc = "pick"
  /\ toggles < MaxToggles
  /\ \E res \in 1..Len(AllOptions) :
       selected' = Toggle(selected, AllOptions[res].name)
  /\ toggles' = toggles + 1
  /\ UNCHANGED <<localFiles, metaDisk, remoteDoc, remoteFiles, script, pc, now,
                 localMeta, remoteMeta, lists, selectedScripts, idx, files,
                 cur, log>>

\* res === -1
PickCancel ==
  /\ pc = "pick"
  /\ pc' = "exit"
  /\ UNCHANGED <<localFiles, metaDisk, remoteDoc, remoteFiles, script, now,
                 localMeta, remoteMeta, lists, selected, selectedScripts, idx,
                 files, cur, toggles, log>>

\* [...newScripts, ...updates].filter(s => selected.has(s.name))
SelectedOf(options, set) == SelectSeq(options, LAMBDA s : s.name \in Range(set))

\* res === allOptions.length
PickDone ==
  /\ pc = "pick"
  /\ selectedScripts' = SelectedOf(AllOptions, selected)
  /\ idx' = 1
  /\ pc' = AfterSelection(selectedScripts')
  /\ UNCHANGED <<localFiles, metaDisk, remoteDoc, remoteFiles, script, now,
                 localMeta, remoteMeta, lists, selected, files, cur, toggles, log>>

---------------------------------------------------------------------------
(* pull: the download loop, part_000 444-471, pull.js 201-228 *)

\* part_000 446: script.type + "s/" + encodeURIComponent(script.name) + ".js"
\* pull.js 203: (script.type === "helper" ? "helpers/" : "scripts/") + ...
remotePath(s) ==
  IF script = "pull"
  THEN <<OrDefault(s.data, "type", "undefined"), "s/">>
         \o encodeURIComponent(s.name) \o <<".js">>
  ELSE (IF OrDefault(s.data, "type", "undefined") = "helper"
        THEN <<"helper", "s/">> ELSE <<"script", "s/">>)
         \o encodeURIComponent(s.name) \o <<".js">>

\* pull.js 48-55 defines fetchGitHubFile; part_000 242 does not import it
\* (its definition is commented out, 256-263), so the call at 449 throws
fetchGitHubFileDefined == script = "pullV1"

\* the request returns content when the repository holds the path
FetchReturns(path) == fetchGitHubFileDefined /\ UrlPath(path) \in DOMAIN remoteFiles

\* localMeta[script.name] = { version, type, lastUpdated }
PulledRecord(s) ==
  Spread(Spread(IF "version" \in DOMAIN s.data THEN [version |-> s.data.version]
                ELSE EmptyObject,
                IF "type" \in DOMAIN s.data THEN [type |-> s.data.type]
                ELSE EmptyObject),
         [lastUpdated |-> now])

\* mutant of DownloadOk: the metadata file is saved after every download
DownloadOkSavesEachTime ==
  /\ pc = "download"
  /\ idx <= Len(selectedScripts)
  /\ LET s       == selectedScripts[idx]
         content == remoteFiles[UrlPath(remotePath(s))]
     IN  /\ FetchReturns(remotePath(s))
         /\ localFiles' = SetKey(localFiles, JsFile(s.name),
                                 [content |-> content, mtime |-> now])
         /\ localMeta' = SetKey(localMeta, s.name, PulledRecord(s))
         /\ metaDisk' = [state |-> "ok", doc |-> localMeta']
         /\ log' = [log EXCEPT !.written = @ \cup {JsFile(s.name)},
                               !.applied = @ \cup {s.name},
                               !.metaWrites = @ + 1]
  /\ idx' = idx + 1
  /\ UNCHANGED <<remoteDoc, remoteFiles, script, pc, now, remoteMeta,
                 lists, selected, selectedScripts, files, cur, toggles>>

\* mutant of DownloadOk: the record is set but the script file is not written
DownloadOkRecordOnly ==
  /\ pc = "download"
  /\ idx <= Len(selectedScripts)
  /\ LET s == selectedScripts[idx]
     IN  /\ FetchReturns(remotePath(s))
         /\ localMeta' = SetKey(localMeta, s.name, PulledRecord(s))
         /\ log' = [log EXCEPT !.applied = @ \cup {s.name}]
  /\ idx' = idx + 1
  /\ UNCHANGED <<localFiles, metaDisk, remoteDoc, remoteFiles, script, pc, now,
                 remoteMeta, lists, selected, selectedScripts, files, cur, toggles>>

DownloadOk ==
  /\ pc = "download"
  /\ idx <= Len(selectedScripts)
  /\ LET s       == selectedScripts[idx]
         content == remoteFiles[UrlPath(remotePath(s))]
     IN  /\ FetchReturns(remotePath(s))
         /\ localFiles' = SetKey(localFiles, JsFile(s.name),
                                 [content |-> content, mtime |-> now])
         /\ localMeta' = SetKey(localMeta, s.name, PulledRecord(s))
         /\ log' = [log EXCEPT !.written = @ \cup {JsFile(s.name)},
                               !.applied = @ \cup {s.name}]
  /\ idx' = idx + 1
  /\ UNCHANGED <<metaDisk, remoteDoc, remoteFiles, script, pc, now, remoteMeta,
                 lists, selected, selectedScripts, files, cur, toggles>>

\* mutant of DownloadFail: the error ends the loop and the script
DownloadFailEndsBatch ==
  /\ pc = "download"
  /\ idx <= Len(selectedScripts)
  /\ log' = [log EXCEPT !.failed = @ \cup {selectedScripts[idx].name}]
  /\ pc' = "crashed"
  /\ UNCHANGED <<localFiles, metaDisk, remoteDoc, remoteFiles, script, now,
                 localMeta, remoteMeta, lists, selected, selectedScripts, idx,
                 files, cur, toggles>>

\* catch (e) { console.error(...) }: the request failed, returned no content,
\* or fetchGitHubFile is not defined
DownloadFail ==
  /\ pc = "download"
  /\ idx <= Len(selectedScripts)
  /\ log' = [log EXCEPT !.failed = @ \cup {selectedScripts[idx].name}]
  /\ idx' = idx + 1
  /\ UNCHANGED <<localFiles, metaDisk, remoteDoc, remoteFiles, script, pc, now,
                 localMeta, remoteMeta, lists, selected, selectedScripts, files,
                 cur, toggles>>

\* `${s.name}: v${s.version}`
SummaryLine(s) == [name |-> s.name, version |-> OrDefault(s.data, "version", <<>>)]

\* fm.writeString(metaFilePath, ...) and the "Update complete" alert
SaveLocalMeta ==
  /\ pc = "download"
  /\ idx > Len(selectedScripts)
  /\ metaDisk' = [state |-> "ok", doc |-> localMeta]
  /\ log' = [log EXCEPT !.metaWrites = @ + 1,
                        !.summary = [i \in 1..Len(selectedScripts) |->
                                       SummaryLine(selectedScripts[i])]]
  /\ pc' = "done"
  /\ UNCHANGED <<localFiles, remoteDoc, remoteFiles, script, now, localMeta,
                 remoteMeta, lists, selected, selectedScripts, idx, files, cur,
                 toggles>>

NextPull ==
  \/ LoadLocalMetadata
  \/ FetchRemoteMetaOk
  \/ FetchRemoteMetaFail
  \/ CompareScripts
  \/ CompareScriptsThrows
  \/ MenuCancel
  \/ MenuUpdateAll
  \/ MenuChoose
  \/ PickToggle
  \/ PickCancel
  \/ PickDone
  \/ DownloadOk
  \/ DownloadFail
  \/ SaveLocalMeta

SpecPull == (InitPull \/ InitPullV1) /\ [][NextPull]_vars

---------------------------------------------------------------------------
(* push: src/scripts/Push.js *)

\* push starts with Foo.js (and perhaps My List.js) in the directory; the local
\* metadata file is absent, or holds for Foo nothing or any of LocalRecs (the
\* file is written by the refresh loop and by pull, under the stem only); the
\* repository holds both scripts
InitPush ==
  \E foo \in {EmptyObject} \cup {[k \in {FocusStem} |-> r] : r \in LocalRecs},
     other \in {EmptyObject,
                [k \in {JsFile(OtherStem)} |-> [content |-> <<98>>, mtime |-> 0]]},
     state \in {"ok", "absent"} :
    /\ state = "absent" => foo = EmptyObject
    /\ InitRun("push",
               Spread([k \in {JsFile(FocusStem)} |-> [content |-> <<97>>, mtime |-> 0]],
                      other),
               [state |-> state, doc |-> foo],
               [n \in Stems |->
                  [version |-> <<1, 0, 0>>,
                   type |-> IF n = FocusStem THEN "widget" ELSE "helper",
                   lastUpdated |-> 1, hash |-> computeHash(<<98>>)]],
               [k \in {RepoPath("widget", JsFile(FocusStem)),
                       RepoPath("helper", JsFile(OtherStem))} |-> <<98>>])

\* Push.js 26-36: bumpVersion; a missing component is NaN
Part(p, i) == IF i <= Len(p) THEN p[i] ELSE NaN

Incr(x) == IF x = NaN THEN NaN ELSE x + 1

\* mutant of bumpVersion: the components after the bumped one are kept
bumpVersionKeepsLower(version, type) ==
  LET rest == SubSeq(version, 4, Len(version))
  IN  IF type = "major"
        THEN <<Incr(Part(version, 1)), Part(version, 2), Part(version, 3)>> \o rest
      ELSE IF type = "minor"
        THEN <<Part(version, 1), Incr(Part(version, 2)), Part(version, 3)>> \o rest
      ELSE <<Part(version, 1), Part(version, 2), Incr(Part(version, 3))>> \o rest

bumpVersion(version, type) ==
  LET rest == SubSeq(version, 4, Len(version))
  IN  IF type = "major" THEN <<Incr(Part(version, 1)), 0, 0>> \o rest
      ELSE IF type = "minor"
        THEN <<Part(version, 1), Incr(Part(version, 2)), 0>> \o rest
      ELSE <<Part(version, 1), Part(version, 2), Incr(Part(version, 3))>> \o rest

\* Push.js 83-87: fm.listContents(dir).filter(f => f.endsWith(".js"))
ListFiles ==
  /\ pc = "listFiles"
  /\ files' = SelectSeq(Keys(localFiles), EndsWithJs)
  /\ pc' = IF Len(files') = 0 THEN "exit" ELSE "refresh"
  /\ UNCHANGED <<localFiles, metaDisk, remoteDoc, remoteFiles, script, now,
                 localMeta, remoteMeta, lists, selected, selectedScripts, idx,
                 cur, toggles, log>>

\* Push.js 93-105: one round of the hash refresh, M the metadata so far
RefreshBody(file, M) ==
  LET hash         == computeHash(localFiles[file].content)
      baseName     == StripJs(file)
      M1           == IF baseName \notin DOMAIN M THEN SetKey(M, baseName, EmptyObject)
                      ELSE M
      previousHash == OrDefault(M1[baseName], "hash", Null)
  IN  IF previousHash # hash
      THEN SetKey(M1, baseName,
                  Spread(M1[baseName], [hash |-> hash, lastUpdated |-> now]))
      ELSE M1

\* the metadata after the first k rounds
RECURSIVE RefreshLoop(_, _)
RefreshLoop(k, M) ==
  IF k = 0 THEN M ELSE RefreshBody(files[k], RefreshLoop(k - 1, M))

\* Push.js 89-117: every round updates localMeta and writes it to disk
RefreshHashes ==
  /\ pc = "refresh"
  /\ localMeta' = RefreshLoop(Len(files), localMeta)
  /\ metaDisk' = [state |-> "ok", doc |-> localMeta']
  /\ log' = [log EXCEPT !.metaWrites = @ + Len(files)]
  /\ pc' = "select"
  /\ UNCHANGED <<localFiles, remoteDoc, remoteFiles, script, now, remoteMeta,
                 lists, selected, selectedScripts, idx, files, cur, toggles>>

\* Push.js 106-109, 113-116: round k fails reading the file or writing the
\* metadata; the rounds before it are done
RefreshAborts ==
  /\ pc = "refresh"
  /\ \E k \in 1..Len(files), e \in {"readString", "writeString"} :
       /\ localMeta' = RefreshLoop(IF e = "readString" THEN k - 1 ELSE k, localMeta)
       /\ metaDisk' = IF k = 1 THEN metaDisk
                      ELSE [state |-> "ok", doc |-> RefreshLoop(k - 1, localMeta)]
       /\ log' = [log EXCEPT !.metaWrites = @ + (k - 1), !.error = e]
  /\ pc' = "exit"
  /\ UNCHANGED <<localFiles, remoteDoc, remoteFiles, script, now, remoteMeta,
                 lists, selected, selectedScripts, idx, files, cur, toggles>>

\* Push.js 131-132
SelectToggle ==
  /\ pc = "select"
  /\ toggles < MaxToggles
  /\ \E choice \in 1..Len(files) : selected' = Toggle(selected, files[choice])
  /\ toggles' = toggles + 1
  /\ UNCHANGED <<localFiles, metaDisk, remoteDoc, remoteFiles, script, pc, now,
                 localMeta, remoteMeta, lists, selectedScripts, idx, files, cur,
                 log>>

\* Push.js 129
SelectCancel ==
  /\ pc = "select"
  /\ pc' = "exit"
  /\ UNCHANGED <<localFiles, metaDisk, remoteDoc, remoteFiles, script, now,
                 localMeta, remoteMeta, lists, selected, selectedScripts, idx,
                 files, cur, toggles, log>>

\* Push.js 130, 134-136: selectedFiles = Array.from(selected)
SelectPush ==
  /\ pc = "select"
  /\ selectedScripts' = selected
  /\ idx' = 1
  /\ pc' = IF Len(selected) = 0 THEN "exit" ELSE "file"
  /\ UNCHANGED <<localFiles, metaDisk, remoteDoc, remoteFiles, script, now,
                 localMeta, remoteMeta, lists, selected, files, cur, toggles, log>>

\* Push.js 139-147: the loop body's fileName and existing
fileName == selectedScripts[idx]

existing == OrDefault(localMeta, StripJs(fileName), EmptyObject)

InFileLoop == script = "push" /\ pc = "file" /\ idx <= Len(selectedScripts)

\* Push.js 148-158: the type prompt is shown when existing has no type
AtTypePrompt == InFileLoop /\ "type" \notin DOMAIN existing

\* Push.js 161-169: the bump prompt
AtBumpPrompt == IF pc = "bump" THEN TRUE ELSE InFileLoop /\ "type" \in DOMAIN existing

typeOfFile == IF pc = "bump" THEN cur.type ELSE existing.type

\* typeChoice === -1: continue
TypeCancel ==
  /\ AtTypePrompt
  /\ idx' = idx + 1
  /\ UNCHANGED <<localFiles, metaDisk, remoteDoc, remoteFiles, script, pc, now,
                 localMeta, remoteMeta, lists, selected, selectedScripts, files,
                 cur, toggles, log>>

TypeChosen ==
  /\ AtTypePrompt
  /\ \E t \in Types : cur' = [type |-> t]
  /\ log' = [log EXCEPT !.asked = @ \cup {fileName}]
  /\ pc' = "bump"
  /\ UNCHANGED <<localFiles, metaDisk, remoteDoc, remoteFiles, script, now,
                 localMeta, remoteMeta, lists, selected, selectedScripts, idx,
                 files, toggles>>

\* bumpChoice === -1: continue
BumpCancel ==
  /\ AtBumpPrompt
  /\ idx' = idx + 1
  /\ pc' = "file"
  /\ cur' = EmptyObject
  /\ UNCHANGED <<localFiles, metaDisk, remoteDoc, remoteFiles, script, now,
                 localMeta, remoteMeta, lists, selected, selectedScripts, files,
                 toggles, log>>

\* Push.js 175-179: localMeta[fileName] = { version, type, lastUpdated }
PushedRecord(newVersion, type) ==
  [version |-> newVersion, type |-> type, lastUpdated |-> now]

\* Push.js 171-179: the version is bumped and recorded before the upload
BumpChosen ==
  /\ AtBumpPrompt
  /\ \E bumpType \in {"major", "minor", "patch"} :
       LET currentVersion == OrDefault(existing, "version", <<0, 0, 0>>)
           newVersion     == bumpVersion(currentVersion, bumpType)
       IN  /\ localMeta' = SetKey(localMeta, fileName,
                                  PushedRecord(newVersion, typeOfFile))
           /\ cur' = [type |-> typeOfFile, newVersion |-> newVersion]
  /\ pc' = "upload"
  /\ UNCHANGED <<localFiles, metaDisk, remoteDoc, remoteFiles, script, now,
                 remoteMeta, lists, selected, selectedScripts, idx, files,
                 toggles, log>>

\* Push.js 182: the path of the PUT request
apiPath == <<cur.type, "s/">> \o encodeURIComponent(fileName)

\* what a confirmed upload put into the repository, and under which record
Sent(f) ==
  [file |-> f, path |-> UrlPath(apiPath), content |-> localFiles[f].content,
   version |-> cur.newVersion, type |-> cur.type, asked |-> f \in log.asked,
   run |-> log.run]

\* Push.js 203-205: the PUT answered 2xx
UploadOk ==
  /\ pc = "upload"
  /\ remoteFiles' = SetKey(remoteFiles, UrlPath(apiPath), localFiles[fileName].content)
  /\ log' = [log EXCEPT !.puts = @ \cup {UrlPath(apiPath)},
                        !.uploaded = @ \cup {fileName},
                        !.sent = Append(@, Sent(fileName))]
  /\ idx' = idx + 1
  /\ pc' = "file"
  /\ cur' = EmptyObject
  /\ UNCHANGED <<localFiles, metaDisk, remoteDoc, script, now, localMeta,
                 remoteMeta, lists, selected, selectedScripts, files, toggles>>

\* Push.js 206-208: the PUT answered another status; the loop goes on
UploadRejected ==
  /\ pc = "upload"
  /\ log' = [log EXCEPT !.puts = @ \cup {UrlPath(apiPath)},
                        !.failed = @ \cup {fileName}]
  /\ idx' = idx + 1
  /\ pc' = "file"
  /\ cur' = EmptyObject
  /\ UNCHANGED <<localFiles, metaDisk, remoteDoc, remoteFiles, script, now,
                 localMeta, remoteMeta, lists, selected, selectedScripts, files,
                 toggles>>

\* Push.js 203: upload.loadJSON() throws (no try around it): the script ends
UploadThrows ==
  /\ pc = "upload"
  /\ log' = [log EXCEPT !.failed = @ \cup {fileName}, !.error = "loadJSON"]
  /\ pc' = "crashed"
  /\ UNCHANGED <<localFiles, metaDisk, remoteDoc, remoteFiles, script, now,
                 localMeta, remoteMeta, lists, selected, selectedScripts, idx,
                 files, cur, toggles>>

\* config.META_FILE || "config/scripts-meta.json"
META_FILE == <<"config/", "scripts-meta", ".json">>

\* Push.js 250-252: `${f}: v${localMeta[f].version} (...)` throws a TypeError
\* for a file that has no record under its file name
DoneMessageThrows == \E i \in 1..Len(selectedScripts) : selectedScripts[i] \notin DOMAIN localMeta

\* Push.js 211-254: scripts-meta.json is uploaded, then the done alert
MetaUploadOk ==
  /\ script = "push" /\ pc = "file" /\ idx > Len(selectedScripts)
  /\ remoteDoc' = localMeta
  /\ log' = [log EXCEPT
               !.puts = @ \cup {META_FILE},
               !.history = @ \o log.sent,
               !.error = IF DoneMessageThrows THEN "TypeError" ELSE @,
               !.summary = IF DoneMessageThrows THEN <<>>
                           ELSE [i \in 1..Len(selectedScripts) |->
                                   [name |-> selectedScripts[i],
                                    version |-> localMeta[selectedScripts[i]].version]]]
  /\ pc' = IF DoneMessageThrows THEN "crashed" ELSE "done"
  /\ UNCHANGED <<localFiles, metaDisk, remoteFiles, script, now, localMeta,
                 remoteMeta, lists, selected, selectedScripts, idx, files, cur,
                 toggles>>

\* Push.js 239-245: the PUT of scripts-meta.json fails or is refused
MetaUploadFail ==
  /\ script = "push" /\ pc = "file" /\ idx > Len(selectedScripts)
  /\ log' = [log EXCEPT !.error = "scripts-meta.json"]
  /\ pc' = "exit"
  /\ UNCHANGED <<localFiles, metaDisk, remoteDoc, remoteFiles, script, now,
                 localMeta, remoteMeta, lists, selected, selectedScripts, idx,
                 files, cur, toggles>>

PushSteps ==
  \/ ListFiles
  \/ RefreshHashes
  \/ RefreshAborts
  \/ SelectToggle
  \/ SelectCancel
  \/ SelectPush
  \/ TypeCancel
  \/ TypeChosen
  \/ BumpCancel
  \/ BumpChosen
  \/ UploadOk
  \/ UploadRejected
  \/ UploadThrows
  \/ MetaUploadOk
  \/ MetaUploadFail

NextPush ==
  \/ LoadLocalMetadata
  \/ FetchRemoteMetaOk
  \/ FetchRemoteMetaFail
  \/ PushSteps

SpecPush == InitPush /\ [][NextPush]_vars

Init == InitPull \/ InitPullV1 \/ InitPush

Next == NextPull \/ PushSteps

Spec == Init /\ [][Next]_vars

---------------------------------------------------------------------------
(* Runs one after the other.  A run leaves behind what it stored: the       *)
(* Scriptable directory, config/scripts-meta.json and the repository; the  *)
(* next run starts from them with fresh variables.                          *)

\* the number of runs in a row
MaxRuns == 2

Scripts == {"pull", "pullV1", "push"}

\* the script has ended: returned, thrown, or shown its last alert
Ended == pc \in {"exit", "done", "crashed"}

\* the variables of a script at its first line, on the stores fs and meta
StartRun(s, fs, meta, replica) ==
  /\ script' = s
  /\ localFiles' = fs
  /\ metaDisk' = meta
  /\ pc' = "start"
  /\ now' = now + 1
  /\ localMeta' = EmptyObject
  /\ remoteMeta' = EmptyObject
  /\ lists' = EmptyLists
  /\ selected' = <<>>
  /\ selectedScripts' = <<>>
  /\ idx' = 0
  /\ files' = <<>>
  /\ cur' = EmptyObject
  /\ toggles' = 0
  /\ log' = [EmptyLog(meta, fs, remoteDoc) EXCEPT
               !.run = log.run + 1, !.replica = replica, !.history = log.history,
               !.published = log.published,
               !.prevApplied = IF replica = log.replica THEN log.applied ELSE {},
               !.prevOffered = IF replica = log.replica
                               THEN {lists.newScripts[i].name :
                                       i \in 1..Len(lists.newScripts)}
                                    \cup {lists.updates[i].name :
                                            i \in 1..Len(lists.updates)}
                               ELSE {},
               !.prevRemote = IF replica = log.replica THEN remoteMeta
                              ELSE EmptyObject]
  /\ UNCHANGED <<remoteDoc, remoteFiles>>

\* the operator runs a script again on the same device
RunAgain ==
  /\ Ended
  /\ log.run < MaxRuns
  /\ \E s \in Scripts : StartRun(s, localFiles, metaDisk, log.replica)

\* the operator runs pull on another device, which holds no script and no
\* config/scripts-meta.json yet
RunOnReplica ==
  /\ Ended
  /\ log.run < MaxRuns
  /\ ~log.replica
  /\ \E s \in {"pull", "pullV1"} :
       StartRun(s, EmptyObject, [state |-> "absent", doc |-> EmptyObject], TRUE)

\* what a metadata file that is not JSON holds (a text cut off after "{")
NotJson == [k \in {<<"{">>} |-> EmptyObject]

\* the first run: Foo.js = "a" in the directory; config/scripts-meta.json is
\* absent, is not JSON, or is the one a pull wrote; the repository is empty
\* or holds the helper My List
InitRuns ==
  \E s \in Scripts,
     meta \in {[state |-> "absent", doc |-> EmptyObject],
               [state |-> "malformed", doc |-> NotJson],
               [state |-> "ok",
                doc |-> [k \in {FocusStem} |->
                           [version |-> <<1, 0, 0>>, type |-> "widget",
                            lastUpdated |-> 0]]]},
     repo \in {EmptyObject,
               [k \in {OtherStem} |->
                  [version |-> <<1, 0, 0>>, type |-> "helper", lastUpdated |-> 1,
                   hash |-> computeHash(<<98>>)]]} :
    InitRun(s, [k \in {JsFile(FocusStem)} |-> [content |-> <<97>>, mtime |-> 0]],
            meta, repo,
            [p \in {RepoPath(repo[n].type, JsFile(n)) : n \in DOMAIN repo} |-> <<98>>])

\* between two runs the repository is changed from elsewhere: a record that
\* has a version, a type and a hash gets the next patch version, other content
\* and the hash of that content
RemotePublish ==
  /\ Ended
  /\ ~log.published
  /\ \E n \in {k \in DOMAIN remoteDoc :
                 {"version", "type", "hash"} \subseteq DOMAIN remoteDoc[k]},
        content \in Contents :
       LET record == remoteDoc[n]
           path   == RepoPath(record.type, JsFile(n))
       IN  /\ path \in DOMAIN remoteFiles
           /\ remoteFiles[path] # content
           /\ remoteDoc' = SetKey(remoteDoc, n,
                 Spread(record,
                        [version |-> <<record.version[1], record.version[2],
                                       record.version[3] + 1>>,
                         hash |-> computeHash(content), lastUpdated |-> now]))
           /\ remoteFiles' = SetKey(remoteFiles, path, content)
  /\ log' = [log EXCEPT !.published = TRUE]
  /\ UNCHANGED <<localFiles, metaDisk, script, pc, now, localMeta, remoteMeta,
                 lists, selected, selectedScripts, idx, files, cur, toggles>>

NextRuns ==
  \/ Next
  \/ RunAgain
  \/ RunOnReplica
  \/ RemotePublish

SpecRuns == InitRuns /\ [][NextRuns]_vars

---------------------------------------------------------------------------
(* Calls of the helper functions on their own: cur holds the arguments and, *)
(* after the call, the value returned.                                      *)

\* the longest text hashed
MaxHashLen == 5

\* code units of the texts hashed: U+0001, "a", U+FFFF
CodeUnits == {1, 97, 65535}

Texts == UNION {[1..k -> CodeUnits] : k \in 0..MaxHashLen}

\* the components of the well-formed versions
Numerals == {<<"0">>, <<"2">>, <<"9">>, <<"1", "0">>}

WellFormedVersions ==
  {a \o <<".">> \o b \o <<".">> \o c : a \in Numerals, b \in Numerals, c \in Numerals}

\* "1.2", "1.2.3.4", "1.a.3", "1..3", "a", ""
MalformedVersions ==
  { <<"1", ".", "2">>, <<"1", ".", "2", ".", "3", ".", "4">>,
    <<"1", ".", "a", ".", "3">>, <<"1", ".", ".", "3">>, <<"a">>, <<>> }

BumpTypes == {"major", "minor", "patch"}

\* a function about to be called with the arguments args, the device holding
\* the files fs
InitCallOn(fn, args, fs) ==
  /\ script = fn
  /\ pc = "call"
  /\ cur = args
  /\ localFiles = fs
  /\ metaDisk = [state |-> "absent", doc |-> EmptyObject]
  /\ remoteDoc = EmptyObject
  /\ remoteFiles = EmptyObject
  /\ now \in {3, 4}
  /\ localMeta = EmptyObject
  /\ remoteMeta = EmptyObject
  /\ lists = EmptyLists
  /\ selected = <<>>
  /\ selectedScripts = <<>>
  /\ idx = 0
  /\ files = <<>>
  /\ toggles = 0
  /\ log = EmptyLog(metaDisk, fs, EmptyObject)

InitCall(fn, args) == InitCallOn(fn, args, EmptyObject)

InitFunctions ==
  \/ \E a \in WellFormedVersions \cup MalformedVersions,
        b \in WellFormedVersions \cup MalformedVersions :
       InitCall("compareVersions", [a |-> a, b |-> b])
  \/ \E v \in WellFormedVersions, t \in BumpTypes :
       InitCall("bumpVersion", [version |-> v, type |-> t])
  \/ \E str \in Texts : InitCall("computeHash", [str |-> str])

\* the call returns value
Return(fn, value) ==
  /\ script = fn
  /\ pc = "call"
  /\ cur' = Spread(cur, [result |-> value])
  /\ pc' = "returned"
  /\ UNCHANGED <<localFiles, metaDisk, remoteDoc, remoteFiles, script, now,
                 localMeta, remoteMeta, lists, selected, selectedScripts, idx,
                 files, toggles, log>>

\* part_000 265-273: compareVersions(a, b) on two strings
CallCompareVersions ==
  Return("compareVersions", compareVersions(SplitNumbers(cur.a), SplitNumbers(cur.b)))

\* Push.js 26-36: bumpVersion(version, type) on a string
CallBumpVersion ==
  Return("bumpVersion", join(bumpVersion(SplitNumbers(cur.version), cur.type)))

\* Git.js 5-13: computeHash(str)
CallComputeHash == Return("computeHash", computeHash(cur.str))

---------------------------------------------------------------------------
(* src/widgets/Shopping list.js: getShoppinglist *)

Undefined == <<"undefined">>

\* !!x of a timestamp
Truthy(x) == x \notin {Null, Undefined}

\* local-shoppinglist.json in the local documents directory
localShoppinglistFilePath == <<"local-shoppinglist", ".json">>

\* last_updated values of the Home Assistant sensor
Timestamps == {<<"t1">>, <<"t2">>}

ItemLists == {<<>>, <<"milk">>, <<"milk", "eggs">>}

\* what req.loadJSON() does: it throws, or yields the sensor's state, in
\* which attributes.items or last_updated may be missing
Responses ==
  {[status |-> "error"]} \cup
  {[status |-> "ok", items |-> i, last_updated |-> t] :
     i \in ItemLists \cup {Undefined}, t \in Timestamps \cup {Undefined}}

\* JSON.parse(JSON.stringify(list)): a member that is undefined is left out
StoredForm(list) ==
  IF list.items = Undefined THEN [lastChanged |-> list.lastChanged] ELSE list

\* the lists the widget has stored: JSON.stringify(remoteList) of a fetch
\* that had a last_updated
StoredLists ==
  {StoredForm([items |-> i, lastChanged |-> t]) :
     i \in ItemLists \cup {Undefined}, t \in Timestamps}

\* Shopping list.js 98-116
getRemoteShoppinglist(response) ==
  IF response.status = "error" THEN [items |-> <<>>, lastChanged |-> Null]
  ELSE [items |-> response.items, lastChanged |-> response.last_updated]

\* localFm.fileExists(localShoppinglistFilePath)
HasLocalList == localShoppinglistFilePath \in DOMAIN localFiles

\* Shopping list.js 118-125 (used where the file exists)
getLocalShoppingList == localFiles[localShoppinglistFilePath].content

\* Shopping list.js 131-135: one of the first two branches returns
ReturnsLocalList(remoteList) ==
  HasLocalList /\ (\/ getLocalShoppingList.lastChanged = remoteList.lastChanged
                   \/ ~Truthy(remoteList.lastChanged))

\* Shopping list.js 136: localList.lastChanged of a null localList
ReadsNullLocalList(remoteList) == ~HasLocalList /\ Truthy(remoteList.lastChanged)

InitWidget ==
  \E fs \in {EmptyObject} \cup
            {[k \in {localShoppinglistFilePath} |-> [content |-> l, mtime |-> 0]] :
               l \in StoredLists},
     r \in Responses :
    InitCallOn("getShoppinglist", [response |-> r], fs)

\* Shopping list.js 127-142: getShoppinglist returns
GetShoppinglistReturns ==
  /\ script = "getShoppinglist"
  /\ pc = "call"
  /\ LET remoteList == getRemoteShoppinglist(cur.response)
     IN  /\ ~ReadsNullLocalList(remoteList)
         /\ IF ReturnsLocalList(remoteList)
            THEN /\ cur' = Spread(cur,
                           [result |->
                              [list |-> getLocalShoppingList,
                               offline |->
                                 getLocalShoppingList.lastChanged
                                   # remoteList.lastChanged]])
                 /\ UNCHANGED localFiles
            ELSE /\ cur' = Spread(cur, [result |-> [list |-> remoteList,
                                                    offline |-> FALSE]])
                 /\ localFiles' =
                      IF Truthy(remoteList.lastChanged)
                      THEN SetKey(localFiles, localShoppinglistFilePath,
                                  [content |-> StoredForm(remoteList), mtime |-> now])
                      ELSE localFiles
  /\ pc' = "returned"
  /\ UNCHANGED <<metaDisk, remoteDoc, remoteFiles, script, now, localMeta,
                 remoteMeta, lists, selected, selectedScripts, idx, files,
                 toggles, log>>

\* Shopping list.js 136: TypeError, there is no stored list to read
\* lastChanged from
GetShoppinglistThrows ==
  /\ script = "getShoppinglist"
  /\ pc = "call"
  /\ ReadsNullLocalList(getRemoteShoppinglist(cur.response))
  /\ pc' = "crashed"
  /\ log' = [log EXCEPT !.error = "TypeError"]
  /\ UNCHANGED <<localFiles, metaDisk, remoteDoc, remoteFiles, script, now,
                 localMeta, remoteMeta, lists, selected, selectedScripts, idx,
                 files, cur, toggles>>

---------------------------------------------------------------------------
(* The on-call script, src/unnamed/part_000 1-220.  Days are counted from   *)
(* today (0); yesterday is -1.                                              *)

\* the most events the calendar holds
MaxEvents == 1

Days == (0 - 2)..1

\* a calendar event: does its title include "Jesus On-Call", is it all-day,
\* the days of its start and end
Events ==
  {[match |-> mt, isAllDay |-> ad, startDate |-> a, endDate |-> b] :
     mt \in BOOLEAN, ad \in BOOLEAN, a \in Days, b \in Days}

\* Calendar.forEvents() has a calendar "On-Call" with these events, or none
Calendars ==
  {[found |-> FALSE, events |-> <<>>]} \cup
  {[found |-> TRUE, events |-> e] :
     e \in UNION {[1..k -> {x \in Events : x.startDate <= x.endDate}] :
                   k \in 0..MaxEvents}}

NoMode == "null"

work == "Trabajo"

rest == "Descanso"

\* args.shortcutParameter: absent, without currentFocusMode, or with one
ShortcutParameters ==
  {[given |-> FALSE, currentFocusMode |-> ""]} \cup
  {[given |-> TRUE, currentFocusMode |-> f] : f \in {"", work, rest, "Sleep"}}

\* part_000 99-112: params.currentFocusMode || null
getShortcutArguments(params) ==
  IF ~params.given THEN NoMode
  ELSE IF params.currentFocusMode = "" THEN NoMode
  ELSE params.currentFocusMode

\* part_000 68-88: is a matching all-day event active on day d
ActiveOn(calendar, d) ==
  \E i \in 1..Len(calendar.events) :
    LET event == calendar.events[i]
    IN  /\ event.match /\ event.isAllDay
        /\ event.startDate <= d /\ event.endDate >= d

\* part_000 39-94: checkOnCallStatusComplete
checkOnCallStatusComplete(calendar) ==
  IF ~calendar.found THEN [isOnCallNow |-> FALSE, wasOnCallYesterday |-> FALSE]
  ELSE [isOnCallNow |-> ActiveOn(calendar, 0),
        wasOnCallYesterday |-> ActiveOn(calendar, 0 - 1)]

\* mutant of isFriday: the sixth day of the week is taken for Friday
isSaturday == cur.weekday = 6

\* part_000 139-142: now.getDay() === 5
isFriday == cur.weekday = 5

\* part_000 117-134: the action of the notification that counts as a choice
showOnCallNotification(action) == IF action \in {work, rest} THEN action ELSE NoMode

InitOnCall ==
  \E params \in ShortcutParameters, calendar \in Calendars, weekday \in 0..6 :
    InitCall("main", [params |-> params, calendar |-> calendar, weekday |-> weekday])

\* part_000 166-171: on-call is active, the notification is scheduled
MainOnCall ==
  /\ script = "main"
  /\ pc = "call"
  /\ checkOnCallStatusComplete(cur.calendar).isOnCallNow
  /\ pc' = "notify"
  /\ UNCHANGED <<localFiles, metaDisk, remoteDoc, remoteFiles, script, now,
                 localMeta, remoteMeta, lists, selected, selectedScripts, idx,
                 files, cur, toggles, log>>

\* part_000 172-182: the operator answers or dismisses the notification
NotificationAnswered ==
  /\ script = "main"
  /\ pc = "notify"
  /\ \E action \in {work, rest, "cancel", NoMode} :
       LET selectedMode == showOnCallNotification(action)
       IN  cur' = Spread(cur,
                    [choice |-> action,
                     result |-> IF selectedMode # NoMode
                                THEN [action |-> "activate_mode", mode |-> selectedMode]
                                ELSE [action |-> "no_action", mode |-> NoMode]])
  /\ pc' = "returned"
  /\ UNCHANGED <<localFiles, metaDisk, remoteDoc, remoteFiles, script, now,
                 localMeta, remoteMeta, lists, selected, selectedScripts, idx,
                 files, toggles, log>>

\* part_000 184-207: no on-call today
MainNoOnCall ==
  /\ script = "main"
  /\ pc = "call"
  /\ ~checkOnCallStatusComplete(cur.calendar).isOnCallNow
  /\ LET currentFocusMode == getShortcutArguments(cur.params)
         status == checkOnCallStatusComplete(cur.calendar)
     IN  cur' = Spread(cur,
                  [result |->
                     IF isFriday /\ status.wasOnCallYesterday
                     THEN (IF currentFocusMode = work
                           THEN [action |-> "activate_mode", mode |-> rest]
                           ELSE [action |-> "no_action", mode |-> NoMode])
                     ELSE [action |-> "no_action", mode |-> NoMode]])
  /\ pc' = "returned"
  /\ UNCHANGED <<localFiles, metaDisk, remoteDoc, remoteFiles, script, now,
                 localMeta, remoteMeta, lists, selected, selectedScripts, idx,
                 files, toggles, log>>

NextApps ==
  \/ GetShoppinglistReturns
  \/ GetShoppinglistThrows
  \/ MainOnCall
  \/ NotificationAnswered
  \/ MainNoOnCall

SpecApps == (InitWidget \/ InitOnCall) /\ [][NextApps]_vars

NextFunctions ==
  \/ CallCompareVersions
  \/ CallBumpVersion
  \/ CallComputeHash

SpecFunctions == InitFunctions /\ [][NextFunctions]_vars

---------------------------------------------------------------------------
(* What the claims speak of *)

NamesIn(list) == {list[i].name : i \in 1..Len(list)}

Occurrences(list, n) == Cardinality({i \in 1..Len(list) : list[i].name = n})

\* the compare loop has run in this run
Compared == pc \in {"menu", "pick", "download", "done"} \/ (pc = "exit" /\ log.error = "")

\* the facts the reconciler decides on, read from the stores the run started from
FileExists0(n) == JsFile(n) \in DOMAIN log.files0

GeneratedHash0(n) == computeHash(log.files0[JsFile(n)].content)

SavedHash0(n) ==
  IF n \in DOMAIN log.meta0.doc THEN OrDefault(log.meta0.doc[n], "hash", Null) ELSE Null

RemoteHashOf(n) == OrDefault(remoteMeta[n], "hash", Null)

LocalVersion0(n) ==
  IF n \in DOMAIN log.meta0.doc THEN OrDefault(log.meta0.doc[n], "version", <<0, 0, 0>>)
  ELSE <<0, 0, 0>>

\* a < b as triples of integers
TripleLess(a, b) ==
  \/ a[1] < b[1]
  \/ a[1] = b[1] /\ a[2] < b[2]
  \/ a[1] = b[1] /\ a[2] = b[2] /\ a[3] < b[3]

RemoteAhead(n) == TripleLess(LocalVersion0(n), remoteMeta[n].version)

ContentDiffers(n) == FileExists0(n) /\ GeneratedHash0(n) # RemoteHashOf(n)

Only(list, n) ==
  /\ Occurrences(lists[list], n) = 1
  /\ \A other \in DOMAIN lists \ {list} : Occurrences(lists[other], n) = 0

\* C1: pull (part_000): a script whose local file exists and hashes to the
\* remote record's hash is classified SKIP, whatever the versions and the
\* saved hash; it is in none of the other lists.
C1_IdenticalContentSkipped ==
  (script = "pull" /\ Compared) =>
    \A n \in DOMAIN remoteMeta :
      (FileExists0(n) /\ GeneratedHash0(n) = RemoteHashOf(n)) => Only("skipped", n)

\* C1 witness: identical content, remote version ahead, saved hash different
C1_Witness ==
  /\ script = "pull" /\ Compared
  /\ \E n \in DOMAIN remoteMeta :
       /\ FileExists0(n) /\ GeneratedHash0(n) = RemoteHashOf(n)
       /\ RemoteAhead(n) /\ SavedHash0(n) # GeneratedHash0(n)
       /\ n \in NamesIn(lists.skipped)

C3_UpdateOrConflictWhenRemoteAhead ==
  (script = "pull" /\ Compared) =>
    \A n \in DOMAIN remoteMeta :
      /\ (ContentDiffers(n) /\ RemoteAhead(n)) =>
           IF GeneratedHash0(n) # SavedHash0(n) THEN Only("conflicts", n)
           ELSE Only("updates", n)
      /\ n \in NamesIn(lists.updates) =>
           /\ ContentDiffers(n) /\ RemoteAhead(n)
           /\ GeneratedHash0(n) = SavedHash0(n)

\* C3 witness: one script a clean update, the other a conflict from a local edit
C3_Witness ==
  /\ script = "pull" /\ Compared
  /\ \E n \in NamesIn(lists.updates) : GeneratedHash0(n) = SavedHash0(n)
  /\ \E n \in NamesIn(lists.conflicts) :
       /\ RemoteAhead(n) /\ n \in DOMAIN log.meta0.doc
       /\ "hash" \in DOMAIN log.meta0.doc[n]
       /\ GeneratedHash0(n) # SavedHash0(n)

\* C4: pull (part_000): with differing content and the remote version equal to
\* or lower than the local one the script is classified CONFLICT only.
C4_ConflictWhenRemoteNotAhead ==
  (script = "pull" /\ Compared) =>
    \A n \in DOMAIN remoteMeta :
      (ContentDiffers(n) /\ ~RemoteAhead(n)) => Only("conflicts", n)

\* C4 witness: local version strictly ahead, content differs, local content
\* matching its saved hash
C4_Witness ==
  /\ script = "pull" /\ Compared
  /\ \E n \in DOMAIN remoteMeta :
       /\ ContentDiffers(n)
       /\ TripleLess(remoteMeta[n].version, LocalVersion0(n))
       /\ GeneratedHash0(n) = SavedHash0(n)
       /\ n \in NamesIn(lists.conflicts)

\* C5: pull (both variants): a name of remoteMeta without a local file
\* <name>.js is classified NEW, whatever the local metadata holds.
C5_MissingFileIsNew ==
  (script \in {"pull", "pullV1"} /\ Compared) =>
    \A n \in DOMAIN remoteMeta : ~FileExists0(n) => Only("newScripts", n)

\* C5 witness: no local file, but a local record with a version and a hash
C5_Witness ==
  /\ script = "pull" /\ Compared
  /\ \E n \in DOMAIN remoteMeta :
       /\ ~FileExists0(n)
       /\ n \in DOMAIN log.meta0.doc
       /\ {"version", "hash"} \subseteq DOMAIN log.meta0.doc[n]
       /\ ~RemoteAhead(n)
       /\ n \in NamesIn(lists.newScripts)


\* C6: pull: under every choice of the operator the scripts selected for
\* download, and the local files written, are among those classified NEW or
\* UPDATE in this run; the file of a script classified CONFLICT or SKIP is
\* left as it was.
C6_OnlyNewAndUpdatesWritten ==
  script \in {"pull", "pullV1"} =>
    LET eligible == NamesIn(lists.newScripts) \cup NamesIn(lists.updates)
        kept     == NamesIn(lists.conflicts) \cup NamesIn(lists.skipped)
    IN  /\ NamesIn(selectedScripts) \subseteq eligible
        /\ log.written \subseteq {JsFile(n) : n \in eligible}
        /\ \A n \in kept :
             /\ n \notin NamesIn(selectedScripts)
             /\ JsFile(n) \notin log.written
             /\ localFiles[JsFile(n)] = log.files0[JsFile(n)]

\* C6 witness: a run with a conflict ended after writing a local file
C6_Witness ==
  /\ pc = "done"
  /\ Len(lists.conflicts) > 0
  /\ log.written # {}

\* C7: pull: once a selected script is applied, its local file holds the
\* fetched content and its local record holds the remote version and type and
\* the hash recomputed from the content written.
C7_AppliedRecordHasRecomputedHash ==
  script \in {"pull", "pullV1"} =>
    \A i \in 1..Len(selectedScripts) :
      LET s == selectedScripts[i]
      IN  s.name \in log.applied =>
            /\ localFiles[JsFile(s.name)].content = remoteFiles[UrlPath(remotePath(s))]
            /\ localMeta[s.name].version = s.data.version
            /\ localMeta[s.name].type = s.data.type
            /\ OrDefault(localMeta[s.name], "hash", Null)
                 = computeHash(localFiles[JsFile(s.name)].content)

\* C8: push and pull: when loading the remote metadata fails, the run ends
\* with no local script written, the local metadata file as it was and no
\* write request sent to the repository.
C8_NoMutationAfterMetaFailure ==
  log.error \in FetchErrors =>
    /\ localFiles = log.files0
    /\ metaDisk = log.meta0
    /\ remoteDoc = log.rdoc0
    /\ log.metaWrites = 0
    /\ log.written = {}
    /\ log.puts = {}

\* C8 witness: push stopped at the failure, with a local file whose hash the
\* refresh loop would have recorded
C8_Witness ==
  /\ script = "push"
  /\ pc = "exit"
  /\ log.error \in FetchErrors
  /\ \E f \in DOMAIN localFiles :
       computeHash(localFiles[f].content)
         # OrDefault(OrDefault(log.meta0.doc, StripJs(f), EmptyObject), "hash", Null)

\* the record a metadata document holds under key k: <<record>>, or <<>>
RecordIn(doc, k) == IF k \in DOMAIN doc THEN <<doc[k]>> ELSE <<>>

\* C9: push: the local metadata records of a script whose upload was not
\* confirmed in this run (not selected, cancelled, failed) are the same as
\* before the run.
C9_RecordsChangeOnlyAfterUpload ==
  script = "push" =>
    \A f \in Range(files) :
      f \notin log.uploaded =>
        \A k \in {f, StripJs(f)} :
          RecordIn(metaDisk.doc, k) = RecordIn(log.meta0.doc, k)

\* the versions a document records under key k
VersionsIn(doc, k) ==
  IF k \in DOMAIN doc /\ "version" \in DOMAIN doc[k] THEN {doc[k].version} ELSE {}

\* C10: push: the metadata document uploaded to the repository records a new
\* version for a script only if that script's upload succeeded in this run.
C10_NewVersionOnlyIfUploaded ==
  (script = "push" /\ META_FILE \in log.puts) =>
    \A f \in Range(files) :
      f \notin log.uploaded =>
        \A k \in {f, StripJs(f)} :
          VersionsIn(remoteDoc, k)
            \subseteq VersionsIn(log.meta0.doc, k) \cup VersionsIn(log.rdoc0, k)

\* C11: push: scripts-meta.json is put to the repository only after the upload
\* of every selected script has finished, and only when none of these uploads
\* failed.
C11_MetadataUploadedAfterAllSucceeded ==
  (script = "push" /\ META_FILE \in log.puts) =>
    /\ idx > Len(selectedScripts)
    /\ pc # "upload"
    /\ log.failed = {}

\* C12: push and pull, in any sequence of runs: every name that has a record
\* in the local metadata document, and every name that has a record in the
\* repository's metadata document, when a run starts still has a record in
\* that document during and after the run.
C12_MetadataAppendOnly ==
  /\ DOMAIN loadFmJSON(log.meta0) \subseteq DOMAIN loadFmJSON(metaDisk)
  /\ DOMAIN log.rdoc0 \subseteq DOMAIN remoteDoc

\* the pushes of file f that the runs so far have completed, in order
PushesOf(f) == SelectSeq(log.history, LAMBDA h : h.file = f)

\* C13: push: over any sequence of successful pushes of one script, the
\* version recorded strictly increases under compareVersions from each push
\* to the next.
C13_PushedVersionsIncrease ==
  \A f \in {log.history[i].file : i \in 1..Len(log.history)} :
    \A i \in 1..(Len(PushesOf(f)) - 1) :
      compareVersions(PushesOf(f)[i + 1].version, PushesOf(f)[i].version) > 0

\* C14: push: every push of a script after its first records the type the
\* first push recorded, and does not show the type prompt.
C14_TypeFixedAtFirstPush ==
  \A f \in {log.history[i].file : i \in 1..Len(log.history)} :
    \A i \in 2..Len(PushesOf(f)) :
      /\ PushesOf(f)[i].type = PushesOf(f)[1].type
      /\ ~PushesOf(f)[i].asked

\* C15: push: every key of a metadata document push writes, locally or to the
\* repository, is a file name stem (no .js suffix), the key under which push
\* and pull look a record up.
C15_KeysAreStems ==
  (script = "push" /\ (log.metaWrites > 0 \/ META_FILE \in log.puts)) =>
    /\ \A k \in DOMAIN metaDisk.doc : ~EndsWithJs(k)
    /\ META_FILE \in log.puts => \A k \in DOMAIN remoteDoc : ~EndsWithJs(k)

\* the scripts the download loop has gone through
Processed == {selectedScripts[i].name : i \in 1..(idx - 1)}

\* C16: pull (both variants): a script whose download failed keeps its local
\* file and its local metadata record, and the loop goes on: every selected
\* script is processed and the run ends with the metadata saved.
C16_FailedDownloadIsolated ==
  script \in {"pull", "pullV1"} =>
    /\ \A n \in log.failed :
         /\ RecordIn(localFiles, JsFile(n)) = RecordIn(log.files0, JsFile(n))
         /\ RecordIn(localMeta, n) = RecordIn(loadFmJSON(log.meta0), n)
         /\ RecordIn(loadFmJSON(metaDisk), n) = RecordIn(loadFmJSON(log.meta0), n)
    /\ pc = "download" => log.applied \cup log.failed = Processed
    /\ (log.failed # {} /\ pc # "download") =>
         /\ pc = "done"
         /\ log.applied \cup log.failed = NamesIn(selectedScripts)

\* C16 witness: the first selected script failed, the second was then applied
\* and the run ended
C16_Witness ==
  /\ script = "pullV1" /\ pc = "done"
  /\ Len(selectedScripts) = 2
  /\ selectedScripts[1].name \in log.failed
  /\ selectedScripts[2].name \in log.applied
  /\ localFiles # log.files0

\* C17: push: when the upload of a selected script fails, by a non-2xx answer
\* or by an error the request raises, the loop still goes through every
\* remaining selected script before the run ends.
C17_FailedUploadIsolated ==
  (script = "push" /\ log.failed # {} /\ Ended) =>
    \A i \in 1..Len(selectedScripts) :
      i < idx \/ (i = idx /\ selectedScripts[i] \in log.failed)

\* C18: push and pull: the final summary never lists as updated a script
\* whose upload or download failed, and a run that got through its batch
\* shows the summary, also when a script was skipped at a prompt.
C18_SummaryReportsFailures ==
  /\ \A i \in 1..Len(log.summary) : log.summary[i].name \notin log.failed
  /\ (script = "push" /\ META_FILE \in log.puts) => pc = "done"

\* C19: pull (both variants): a run that reaches the download loop writes the
\* local metadata file exactly once, after the last selected script, with the
\* metadata held in memory; a run that ends or is at any point before that
\* has not written it.
C19_PullSavesMetadataOnce ==
  script \in {"pull", "pullV1"} =>
    /\ Len(selectedScripts) > 0 => pc \in {"download", "done"}
    /\ pc = "done" =>
         /\ log.metaWrites = 1
         /\ idx > Len(selectedScripts)
         /\ metaDisk = [state |-> "ok", doc |-> localMeta]
    /\ pc # "done" => (log.metaWrites = 0 /\ metaDisk = log.meta0)

\* C19 witness: two scripts went through the loop, one applied and one
\* failed, and the file was saved once with the applied record
C19_Witness ==
  /\ script = "pullV1" /\ pc = "done"
  /\ Len(selectedScripts) = 2
  /\ log.applied # {} /\ log.failed # {}
  /\ log.metaWrites = 1
  /\ metaDisk # log.meta0

\* the last push of file f that the runs before this one completed
LastPushOf(f) == PushesOf(f)[Len(PushesOf(f))]

\* C20: push then pull: for a script that was pushed, the path pull fetches
\* for its name is the path push uploaded its file to, and the file a pull
\* applies on another device holds the pushed content.
C20_PullFetchesPushedPath ==
  (script \in {"pull", "pullV1"} /\ pc \in {"download", "done"}) =>
    \A i \in 1..Len(selectedScripts) :
      LET s == selectedScripts[i]
          f == JsFile(s.name)
      IN  Len(PushesOf(f)) > 0 =>
            /\ UrlPath(remotePath(s)) = LastPushOf(f).path
            /\ (log.replica /\ s.name \in log.applied) =>
                 localFiles[f].content = LastPushOf(f).content

\* the integers the Numerals stand for
NumeralValues == {0, 2, 9, 10}

\* the (major, minor, patch) a well-formed version string is the text of
TripleOf(v) ==
  CHOOSE t \in NumeralValues \X NumeralValues \X NumeralValues : join(t) = v

\* the order of integer triples: -1, 0 or 1
TripleOrder(s, t) == IF TripleLess(s, t) THEN 0 - 1 ELSE IF s = t THEN 0 ELSE 1

\* compareVersions on two strings
Cmp(a, b) == compareVersions(SplitNumbers(a), SplitNumbers(b))

\* C21: compareVersions(a, b) on well-formed version strings is the
\* lexicographic order of their integer triples (-1, 0, 1), components
\* compared as integers; it is antisymmetric and transitive and is 0 only
\* for equal triples.
C21_CompareVersionsIsTripleOrder ==
  (script = "compareVersions" /\ pc = "returned"
     /\ cur.a \in WellFormedVersions /\ cur.b \in WellFormedVersions) =>
    /\ cur.result = TripleOrder(TripleOf(cur.a), TripleOf(cur.b))
    /\ cur.result = 0 - Cmp(cur.b, cur.a)
    /\ cur.result = 0 => TripleOf(cur.a) = TripleOf(cur.b)
    /\ \A c \in WellFormedVersions :
         /\ (cur.result <= 0 /\ Cmp(cur.b, c) <= 0) => Cmp(cur.a, c) <= 0
         /\ (cur.result < 0 /\ Cmp(cur.b, c) <= 0) => Cmp(cur.a, c) < 0

\* C21 witness: "9.0.0" against "10.0.0", where the strings order the other way
C21_Witness ==
  /\ script = "compareVersions" /\ pc = "returned"
  /\ cur.a = <<"9", ".", "0", ".", "0">>
  /\ cur.b = <<"1", "0", ".", "0", ".", "0">>
  /\ cur.result = 0 - 1

\* C22: compareVersions given a malformed version string (not three
\* components, or a component that is not a number) yields an error for that
\* comparison, not one of the results -1, 0, 1.
C22_MalformedVersionIsAnError ==
  (script = "compareVersions" /\ pc = "returned"
     /\ (cur.a \in MalformedVersions \/ cur.b \in MalformedVersions)) =>
    cur.result \notin {0 - 1, 0, 1}

\* what a bump of kind type makes of the triple t
Bumped(t, type) ==
  IF type = "major" THEN <<t[1] + 1, 0, 0>>
  ELSE IF type = "minor" THEN <<t[1], t[2] + 1, 0>>
  ELSE <<t[1], t[2], t[3] + 1>>

\* C23: bumpVersion(v, kind) on a well-formed v = MAJOR.MINOR.PATCH returns the
\* text of (MAJOR+1).0.0, MAJOR.(MINOR+1).0 or MAJOR.MINOR.(PATCH+1); the
\* result is a function of v and kind alone.
C23_BumpVersionResult ==
  (script = "bumpVersion" /\ pc = "returned") =>
    /\ cur.result = join(Bumped(TripleOf(cur.version), cur.type))
    /\ SplitNumbers(cur.result) = Bumped(TripleOf(cur.version), cur.type)

\* C23 witness: a minor bump of "9.10.2" gives "9.11.0"
C23_Witness ==
  /\ script = "bumpVersion" /\ pc = "returned"
  /\ cur.version = <<"9", ".", "1", "0", ".", "2">>
  /\ cur.type = "minor"
  /\ cur.result = <<"9", ".", "1", "1", ".", "0">>

\* h * 31 + c wrapped to signed 32-bit two's complement, h given in 32 bits:
\* computed on the 16-bit halves of h so that no product leaves 32 bits
Times31Plus(h, c) ==
  LET lo    == h % 65536
      hi    == (h - lo) \div 65536
      low   == (lo * 31) + c
      high  == ((hi * 31) + (low \div 65536)) % 65536
  IN  ((IF high >= 32768 THEN high - 65536 ELSE high) * 65536) + (low % 65536)

RECURSIVE Fold31(_, _)
Fold31(str, n) == IF n = 0 THEN 0 ELSE Times31Plus(Fold31(str, n - 1), str[n])

\* the high 16-bit half of a signed 32-bit value lies in -2^15 .. 2^15 - 1
InInt32(h) == ((h - (h % 65536)) \div 65536) \in (0 - 32768)..32767

\* C24: computeHash(s) is the fold h := h * 31 + c over the code units of s,
\* wrapped to signed 32 bits after every unit, from 0; every running value is
\* in [-2^31, 2^31 - 1]; the shift-subtract round gives what multiplying by
\* 31 and wrapping gives.
C24_ComputeHashIsFold31 ==
  (script = "computeHash" /\ pc = "returned") =>
    /\ cur.result = toString16(Fold31(cur.str, Len(cur.str)))
    /\ cur.result = computeHash(cur.str)
    /\ \A k \in 0..Len(cur.str) : InInt32(HashFrom(SubSeq(cur.str, 1, k), 1, 0))
    /\ \A k \in 1..Len(cur.str) :
         HashStep(Fold31(cur.str, k - 1), cur.str[k])
           = Times31Plus(Fold31(cur.str, k - 1), cur.str[k])

\* C24 witness: a text of U+FFFF units whose running value wrapped below zero
C24_Witness ==
  /\ script = "computeHash" /\ pc = "returned"
  /\ Len(cur.str) = MaxHashLen
  /\ \A k \in 1..Len(cur.str) : cur.str[k] = 65535
  /\ cur.result[1] = "-"

\* C25: push and pull: when config/scripts-meta.json is absent or is not
\* valid JSON the loader returns an empty mapping and the run goes on with no
\* local record for any script.
C25_LocalMetadataLoadsSoft ==
  log.meta0.state \in {"absent", "malformed"} =>
    /\ pc \in {"fetchMeta", "compare", "listFiles", "refresh", "menu", "pick"} =>
         localMeta = EmptyObject
    /\ pc \in {"compare", "menu", "pick"} =>
         \A n \in DOMAIN remoteMeta : localDataOf(n) = EmptyObject

\* C25 witness: push found a file that is not JSON and went through to the end
C25_Witness ==
  /\ log.meta0.state = "malformed"
  /\ script = "push"
  /\ pc = "done"
  /\ log.uploaded # {}

\* C26: pull.js: a script whose local file was modified after the remote
\* record's lastUpdated is classified as a conflict, is not offered for
\* update and is not overwritten, whatever the two versions are.
C26_LocallyModifiedIsConflict ==
  (script = "pullV1" /\ Compared) =>
    \A n \in DOMAIN remoteMeta :
      (FileExists0(n)
         /\ JsGt(log.files0[JsFile(n)].mtime, OrDefault(remoteMeta[n], "lastUpdated", NaN))) =>
        /\ n \in NamesIn(lists.conflicts)
        /\ n \notin NamesIn(AllOptions)
        /\ JsFile(n) \notin log.written

\* C27: getShoppinglist returns; it returns the stored list with offline = TRUE
\* exactly when a stored list exists and the fetch yielded no lastChanged, and
\* offline = FALSE otherwise; when the fetch yields a lastChanged that is not
\* the stored one, the stored list is replaced by the remote list, which is
\* returned.
C27_OfflineOnlyWithoutRemote ==
  (script = "getShoppinglist" /\ pc # "call") =>
    LET stored     == localShoppinglistFilePath \in DOMAIN log.files0
        remoteList == getRemoteShoppinglist(cur.response)
        fresh      == /\ Truthy(remoteList.lastChanged)
                      /\ stored =>
                           log.files0[localShoppinglistFilePath].content.lastChanged
                             # remoteList.lastChanged
    IN  /\ pc = "returned"
        /\ cur.result.offline = (stored /\ ~Truthy(remoteList.lastChanged))
        /\ cur.result.offline =>
             cur.result.list = log.files0[localShoppinglistFilePath].content
        /\ fresh =>
             /\ cur.result.list = remoteList
             /\ HasLocalList
             /\ getLocalShoppingList = StoredForm(remoteList)
        /\ ~fresh => localFiles = log.files0

\* C28: main() of the on-call script returns "activate_mode" with a mode in
\* exactly two cases: on-call is active today and the operator chose Trabajo or
\* Descanso (the mode is the choice); or on-call is not active today, it is
\* Friday, on-call was active yesterday and the current focus mode is Trabajo
\* (the mode is Descanso).  Otherwise it returns "no_action" without a mode;
\* "none" is never returned.
C28_ActivateModeInTwoCases ==
  (script = "main" /\ pc = "returned") =>
    LET covers(d) == \E i \in 1..Len(cur.calendar.events) :
                       /\ cur.calendar.events[i].match
                       /\ cur.calendar.events[i].isAllDay
                       /\ cur.calendar.events[i].startDate <= d
                       /\ d <= cur.calendar.events[i].endDate
        today     == cur.calendar.found /\ covers(0)
        yesterday == cur.calendar.found /\ covers(0 - 1)
        focusWork == cur.params.given /\ cur.params.currentFocusMode = "Trabajo"
        chosen    == today /\ cur.choice \in {"Trabajo", "Descanso"}
        friday    == ~today /\ cur.weekday = 5 /\ yesterday /\ focusWork
    IN  /\ cur.result.action \in {"activate_mode", "no_action"}
        /\ (cur.result.action = "activate_mode") = (chosen \/ friday)
        /\ chosen => cur.result.mode = cur.choice
        /\ friday => cur.result.mode = "Descanso"
        /\ cur.result.action = "no_action" => cur.result.mode = NoMode
        /\ cur.result.action = "activate_mode" => cur.result.mode # NoMode
        /\ today = ("choice" \in DOMAIN cur)

C28_Witness ==
  /\ script = "main" /\ pc = "returned"
  /\ "choice" \notin DOMAIN cur
  /\ cur.weekday = 5
  /\ cur.result = [action |-> "activate_mode", mode |-> "Descanso"]

\* C29: a script that the run before applied, not edited since, whose remote
\* record now has a strictly greater version and different content, is
\* classified UPDATE by pull, not CONFLICT.
C29_AppliedThenUpdatedIsUpdate ==
  (script = "pull" /\ Compared) =>
    \A n \in log.prevApplied \cap DOMAIN remoteMeta :
      (RemoteAhead(n) /\ ContentDiffers(n)) => Only("updates", n)

\* C30: after a run that applied every script it had in newScripts and updates,
\* with every remote hash the hash of the remote content, pull run against the
\* same remote metadata classifies each applied script SKIP and has nothing in
\* newScripts or updates.
C30_PullIsIdempotent ==
  (/\ script = "pull" /\ Compared
   /\ log.prevApplied # {}
   /\ log.prevApplied = log.prevOffered
   /\ remoteMeta = log.prevRemote
   /\ \A n \in DOMAIN remoteMeta :
        /\ {"type", "hash"} \subseteq DOMAIN remoteMeta[n]
        /\ RepoPath(remoteMeta[n].type, JsFile(n)) \in DOMAIN remoteFiles
        /\ remoteMeta[n].hash =
             computeHash(remoteFiles[RepoPath(remoteMeta[n].type, JsFile(n))]))
  => /\ \A n \in log.prevApplied : Only("skipped", n)
     /\ lists.newScripts = <<>>
     /\ lists.updates = <<>>
     /\ ~ActionsOffered

C30_Witness ==
  /\ script = "pull" /\ Compared
  /\ log.prevApplied = {OtherStem}
  /\ log.prevApplied = log.prevOffered
  /\ remoteMeta = log.prevRemote
  /\ remoteMeta[OtherStem].hash =
       computeHash(remoteFiles[RepoPath(remoteMeta[OtherStem].type, JsFile(OtherStem))])
  /\ Only("skipped", OtherStem)

\* C31: push: once scripts-meta.json has been uploaded, the metadata file on
\* disk and the uploaded document hold the same record for every script whose
\* upload succeeded, and the version the next push of that script starts from
\* (the one on disk under its name) is the version uploaded.
C31_DiskAndRemoteRecordAgree ==
  (script = "push" /\ Ended /\ META_FILE \in log.puts) =>
    \A f \in log.uploaded :
      /\ f \in DOMAIN remoteDoc
      /\ RecordIn(loadFmJSON(metaDisk), f) = RecordIn(remoteDoc, f)
      /\ VersionsIn(loadFmJSON(metaDisk), StripJs(f)) = {remoteDoc[f].version}

\* C32: pull: a run that the operator cancelled at the main menu or at the
\* selection menu, or in which an empty selection was confirmed, has ended
\* without writing a script file and without writing the metadata file.
C32_CancelledPullWritesNothing ==
  (script \in {"pull", "pullV1"} /\ Ended /\ log.error = "" /\ selectedScripts = <<>>) =>
    /\ pc = "exit"
    /\ localFiles = log.files0
    /\ metaDisk = log.meta0
    /\ log.written = {}
    /\ log.metaWrites = 0

\* C32 witness: something was offered, the operator toggled it on and off and
\* the run ended with an empty selection
C32_Witness ==
  /\ script \in {"pull", "pullV1"} /\ pc = "exit" /\ log.error = ""
  /\ Len(AllOptions) > 0
  /\ toggles = 2 /\ selected = <<>> /\ selectedScripts = <<>>
  /\ localFiles = log.files0 /\ metaDisk = log.meta0

\* bumpVersion on a string
BumpText(v, type) == join(bumpVersion(SplitNumbers(v), type))

\* C33: for a well-formed version v and every kind,
\* compareVersions(bumpVersion(v, kind), v) = 1, and for the same v the
\* results are ordered patch < minor < major.
C33_BumpVersionIncreases ==
  (script = "bumpVersion" /\ pc = "returned") =>
    /\ Cmp(cur.result, cur.version) = 1
    /\ Cmp(cur.version, cur.result) = 0 - 1
    /\ Cmp(BumpText(cur.version, "minor"), BumpText(cur.version, "patch")) = 1
    /\ Cmp(BumpText(cur.version, "major"), BumpText(cur.version, "minor")) = 1
    /\ Cmp(BumpText(cur.version, "major"), BumpText(cur.version, "patch")) = 1

\* C33 witness: the patch bump of "9.9.9" is "9.9.10", which as text sorts
\* before "9.9.9"
C33_Witness ==
  /\ script = "bumpVersion" /\ pc = "returned"
  /\ cur.version = <<"9", ".", "9", ".", "9">>
  /\ cur.type = "patch"
  /\ cur.result = <<"9", ".", "9", ".", "1", "0">>
  /\ Cmp(cur.result, cur.version) = 1

\* C34: getShoppinglist returns a result, whether a stored list exists or not
\* and whether the fetch succeeded or failed; with no stored list and a
\* successful fetch it stores the remote list and returns it with
\* offline = FALSE.
C34_GetShoppinglistAlwaysReturns ==
  (script = "getShoppinglist" /\ pc # "call") =>
    /\ pc = "returned"
    /\ "result" \in DOMAIN cur
    /\ (/\ localShoppinglistFilePath \notin DOMAIN log.files0
        /\ cur.response.status = "ok"
        /\ Truthy(cur.response.last_updated)) =>
         /\ HasLocalList
         /\ getLocalShoppingList = StoredForm(getRemoteShoppinglist(cur.response))
         /\ cur.result = [list |-> getRemoteShoppinglist(cur.response),
                          offline |-> FALSE]

====
